---- MODULE Spec2Model ----
(***************************************************************************)
(* Model of the response-compression middleware of vafast-compress         *)
(* (src/src/main.ts).                                                      *)
(*                                                                         *)
(* Strings are sequences of symbols.  A symbol is either a separator       *)
(* character ("," or " ") or a whole token ("gzip", "Origin", ...), so     *)
(* String.split, trim, toLowerCase and join are computed on the sequence   *)
(* exactly as JavaScript computes them on the characters.                  *)
(* Byte bodies are sequences of byte values.                               *)
(***************************************************************************)
EXTENDS Integers, Sequences, FiniteSets, TLC

VARIABLES
    opts,       \* the options object handed to compression(), fixed after construction
    cache,      \* the process-wide cacheStore: key -> [value, expiresAt]
    now,        \* wall clock, in seconds
    calls,      \* instrumentation: (algorithm, body) pairs handed to the compressors, with call counts
    started,    \* number of middleware invocations started so far
    inflight,   \* per request slot: position in the async handler and its locals
    negIn,      \* input of the encoding negotiation under check
    negOut,     \* its result
    rwIn,       \* input of the response rewriter under check
    rwOut       \* its result

vars == <<opts, cache, now, calls, started, inflight, negIn, negOut, rwIn, rwOut>>
mwVars == <<opts, cache, now, calls, started, inflight>>
negVars == <<negIn, negOut>>
rwVars == <<rwIn, rwOut>>

\* ---------------------------------------------------------------- bounds
MaxTokens == 3          \* tokens in a generated Accept-Encoding or Vary value
MaxRequests == 2        \* middleware invocations in one behaviour
MaxTime == 1            \* last clock value
SmallThreshold == 2     \* a configured threshold (bytes) that the bodies straddle
ShortTTL == 1           \* a configured TTL (seconds) that expires within MaxTime

\* ---------------------------------------------------------------- values
\* A value that may be missing (undefined, null) is <<>> or <<v>>.
Unset == <<>>                 \* an option that was not supplied; a header that is not there
Some(v) == <<v>>
IsSet(m) == m # <<>>
Val(m) == m[1]

None == "none"                \* no negotiated encoding (encodings.length < 1)

Comma == ","
Space == " "

\* ---------------------------------------------------------------- strings
\* First index at which sep occurs in s, or 0.
IndexOf(s, sep) ==
    LET hits == { i \in 1..(Len(s) - Len(sep) + 1) : SubSeq(s, i, i + Len(sep) - 1) = sep }
    IN  IF hits = {} THEN 0 ELSE CHOOSE i \in hits : \A j \in hits : i <= j

\* String.prototype.split(sep) for a non-empty separator.
RECURSIVE Split(_, _)
Split(s, sep) ==
    LET i == IndexOf(s, sep)
    IN  IF i = 0 THEN <<s>>
        ELSE <<SubSeq(s, 1, i - 1)>> \o Split(SubSeq(s, i + Len(sep), Len(s)), sep)

\* Array.prototype.join(sep).
RECURSIVE Join(_, _)
Join(parts, sep) ==
    IF parts = <<>> THEN <<>>
    ELSE IF Len(parts) = 1 THEN parts[1]
    ELSE parts[1] \o sep \o Join(Tail(parts), sep)

\* String.prototype.trim().
RECURSIVE Trim(_)
Trim(s) ==
    IF s = <<>> THEN s
    ELSE IF Head(s) = Space THEN Trim(Tail(s))
    ELSE IF s[Len(s)] = Space THEN Trim(SubSeq(s, 1, Len(s) - 1))
    ELSE s

\* String.prototype.toLowerCase(), symbol by symbol.
LowerSym(c) ==
    CASE c = "Origin" -> "origin"
      [] c = "Accept-Encoding" -> "accept-encoding"
      [] OTHER -> c

ToLowerCase(s) == [i \in 1..Len(s) |-> LowerSym(s[i])]

\* Array.prototype.includes.
Includes(arr, x) == \E i \in 1..Len(arr) : arr[i] = x

\* Array.prototype.indexOf (1-based; 0 when missing).
ArrayIndexOf(arr, x) ==
    IF Includes(arr, x) THEN CHOOSE i \in 1..Len(arr) : arr[i] = x /\ \A j \in 1..(i - 1) : arr[j] # x
    ELSE 0

\* ---------------------------------------------------------------- options
\* options?.x ?? d
OrDefault(m, d) == IF IsSet(m) THEN Val(m) ELSE d

\* main.ts:54
defaultEncodings(o) == OrDefault(o.encodings, <<"br", "gzip", "deflate">>)

\* ---------------------------------------------------------------- negotiation
\* req.headers.get('accept-encoding')?.split(', ') ?? []
acceptEncodings(header) ==
    IF IsSet(header) THEN Split(Val(header), <<Comma, Space>>) ELSE <<>>

\* defaultEncodings.filter(encoding => acceptEncodings.includes(encoding))
encodingsFor(configured, header) ==
    LET accepted == acceptEncodings(header)
        Accepted(e) == Includes(accepted, <<e>>)
    IN  SelectSeq(configured, Accepted)

\* Mutant: `*` taken as accepting every configured encoding.
NegotiateWildcard(configured, header) ==
    LET es == encodingsFor(configured, header)
    IN  IF Includes(acceptEncodings(header), <<"*">>) /\ Len(configured) >= 1 THEN configured[1]
        ELSE IF Len(es) < 1 THEN None ELSE es[1]

\* encodings[0], or None when encodings.length < 1
Negotiate(configured, header) ==
    LET es == encodingsFor(configured, header)
    IN  IF Len(es) < 1 THEN None ELSE es[1]

\* ---------------------------------------------------------------- response rewriter
AcceptEncodingToken == <<"accept-encoding">>
Wildcard == <<"*">>

\* Mutant: the tokens are trimmed but keep their case.
headerValueArrayKeepCase(vary) ==
    LET parts == Split(vary, <<Comma>>)
    IN  [i \in 1..Len(parts) |-> Trim(parts[i])]

\* vary.split(',').map(v => v.trim().toLowerCase())
headerValueArray(vary) ==
    LET parts == Split(vary, <<Comma>>)
    IN  [i \in 1..Len(parts) |-> ToLowerCase(Trim(parts[i]))]

\* arr.filter((value, index, array) => array.indexOf(value) === index)
Unique(arr) ==
    LET keep == { i \in 1..Len(arr) : ArrayIndexOf(arr, arr[i]) = i }
        Nth(k) == CHOOSE i \in keep : Cardinality({ j \in keep : j < i }) = k - 1
    IN  [k \in 1..Cardinality(keep) |-> arr[Nth(k)]]

\* Mutant: accept-encoding is merged in whether or not Vary holds `*`.
MergeVaryIgnoringWildcard(vary) ==
    IF IsSet(vary) /\ Val(vary) # <<>>
    THEN Some(Join(Unique(headerValueArray(Val(vary)) \o <<AcceptEncodingToken>>),
                   <<Comma, Space>>))
    ELSE Some(AcceptEncodingToken)

\* The value of Vary after main.ts:166-191; vary is headers.get('Vary').
\* An empty header value is falsy, like a missing one.
MergeVary(vary) ==
    IF IsSet(vary) /\ Val(vary) # <<>>
    THEN LET arr == headerValueArray(Val(vary))
         IN  IF ~Includes(arr, Wildcard)
             THEN Some(Join(Unique(arr \o <<AcceptEncodingToken>>), <<Comma, Space>>))
             ELSE vary
    ELSE Some(AcceptEncodingToken)

\* new Response(body, {status, statusText, headers}) with the rewritten headers
Rewrite(response, encoding, compressed) ==
    [ status  |-> response.status,
      headers |-> [response.headers EXCEPT
                     !.vary = MergeVary(response.headers.vary),
                     !.contentEncoding = Some(<<encoding>>)],
      body    |-> compressed ]

\* ---------------------------------------------------------------- configuration
\* main.ts:58
DefaultThreshold == 1024
threshold(o) == OrDefault(o.threshold, DefaultThreshold)

\* main.ts:59, in seconds
DefaultTTL == 86400
\* Mutant: the configured TTL is not passed on to the cache.
cacheTTLDefaultOnly(o) == DefaultTTL

cacheTTL(o) == OrDefault(o.TTL, DefaultTTL)

\* Mutant: the opt-out header is off unless asked for.
disableByHeaderOffByDefault(o) == OrDefault(o.disableByHeader, FALSE)

\* main.ts:60
disableByHeader(o) == OrDefault(o.disableByHeader, TRUE)

\* main.ts:61
compressStream(o) == OrDefault(o.compressStream, TRUE)

\* main.ts:55-56, the regular expression's five alternatives over a MIME string
defaultCompressibleTypes(ct) ==
    LET n == Len(ct)
        Ends(i) == i = n \/ ct[i + 1] = ";"
        Suffix(x) == \E i \in 1..(n - 1) : ct[i] \in {"+", "/"} /\ ct[i + 1] = x /\ Ends(i + 1)
    IN  \/ n >= 2 /\ ct[1] = "text" /\ ct[2] = "/" /\ ~(n >= 3 /\ ct[3] = "event-stream")
        \/ Suffix("json")
        \/ Suffix("text")
        \/ Suffix("xml")
        \/ \E i \in 1..n : ct[i] = "octet-stream" /\ Ends(i)

\* ---------------------------------------------------------------- bodies
NullBody == [kind |-> "null", bytes |-> <<>>]
BufferBody(b) == [kind |-> "buffer", bytes |-> b]
StreamBody(b) == [kind |-> "stream", bytes |-> b]

\* response.body instanceof ReadableStream: Response.body is a ReadableStream for
\* every body that is not null, a fixed string or buffer included.
\* Mutant: the response object, which is never a stream, is tested in place
\* of its body.
IsReadableStreamOfResponse(body) == FALSE

IsReadableStream(body) == body.kind # "null"

\* Mutant: redirects count as successful.
OkUpTo399(response) == response.status >= 200 /\ response.status <= 399

\* Response.ok
Ok(response) == response.status >= 200 /\ response.status <= 299

\* (await clonedResponse.arrayBuffer()): all the bytes of the body
arrayBuffer(response) == response.body.bytes

\* textDecoder.decode(buffer) over the bytes 0..127, 0xFE and 0xFF: a byte that
\* can never occur in UTF-8 decodes to U+FFFD.
ReplacementChar == 65533
Decode(buffer) ==
    [i \in 1..Len(buffer) |-> IF buffer[i] < 128 THEN buffer[i] ELSE ReplacementChar]

\* compressors[algorithm](buffer): the zlib codecs are opaque and lossless
Compress(algorithm, buffer) == [kind |-> "compressed", alg |-> algorithm, data |-> buffer]
\* zlib's decoder throws on the output of another algorithm's compressor
\* ("incorrect header check", "Decompression failed", "unexpected end of file").
DecompressThrows == [threw |-> TRUE, bytes |-> <<>>]

Decompress(algorithm, body) ==
    IF body.alg = algorithm THEN [threw |-> FALSE, bytes |-> body.data]
    ELSE DecompressThrows

\* stream.pipeThrough(CompressionStream(encoding, options))
CompressionStream(encoding, body) ==
    [kind |-> "compressedStream", alg |-> encoding, data |-> body.bytes]

\* new Uint8Array(compressed): an absent value gives an empty array
Uint8Array(compressed) ==
    IF IsSet(compressed) THEN Val(compressed)
    ELSE [kind |-> "buffer", bytes |-> <<>>]

\* ---------------------------------------------------------------- cache
\* createHash('md5').update(`${algorithm}:${textDecoder.decode(buffer)}`).digest('hex')
\* The digest is taken to be injective on the hashed string.
CacheKey(algorithm, buffer) == <<algorithm, ":">> \o Decode(buffer)

EmptyCache == [k \in {} |-> Unset]

Visible(c, key, t) == key \in DOMAIN c /\ t < c[key].expiresAt

\* lazy expiration: a lookup of an expired entry removes it
Evict(c, key, t) ==
    IF key \in DOMAIN c /\ ~Visible(c, key, t)
    THEN [k \in DOMAIN c \ {key} |-> c[k]]
    ELSE c

cacheHas(c, key, t) == Visible(c, key, t)
cacheGet(c, key, t) == IF Visible(c, key, t) THEN Some(c[key].value) ELSE Unset
cacheSet(c, key, value, ttl, t) ==
    [k \in DOMAIN c \cup {key} |->
        IF k = key THEN [value |-> value, expiresAt |-> t + ttl] ELSE c[k]]

\* Instrumentation of the compressors: one more call for (algorithm, buffer).
Calls(cs, algorithm, buffer) ==
    IF <<algorithm, buffer>> \in DOMAIN cs THEN cs[<<algorithm, buffer>>] ELSE 0
Count(cs, algorithm, buffer) ==
    [p \in DOMAIN cs \cup {<<algorithm, buffer>>} |->
        IF p = <<algorithm, buffer>> THEN Calls(cs, algorithm, buffer) + 1 ELSE cs[p]]

\* Mutant: the cache is written but never read.
getOrCompressUncached(o, c, algorithm, buffer, tHas, tGet, throws) ==
    LET cacheKey == CacheKey(algorithm, buffer)
        compressedOutput == Compress(algorithm, buffer)
    IN  IF throws
        THEN [ ret |-> Unset, cache |-> Evict(c, cacheKey, tHas),
               compressed |-> TRUE, threw |-> TRUE ]
        ELSE [ ret |-> Some(compressedOutput),
               cache |-> cacheSet(Evict(c, cacheKey, tHas), cacheKey,
                                  compressedOutput, cacheTTL(o), tGet),
               compressed |-> TRUE, threw |-> FALSE ]

\* Mutant: the entry is stored before the compressor has returned.
getOrCompressStoringFirst(o, c, algorithm, buffer, tHas, tGet, throws) ==
    LET cacheKey == CacheKey(algorithm, buffer)
        compressedOutput == Compress(algorithm, buffer)
    IN  IF cacheHas(c, cacheKey, tHas)
        THEN [ ret |-> cacheGet(c, cacheKey, tGet),
               cache |-> Evict(c, cacheKey, tGet),
               compressed |-> FALSE, threw |-> FALSE ]
        ELSE [ ret |-> IF throws THEN Unset ELSE Some(compressedOutput),
               cache |-> cacheSet(Evict(c, cacheKey, tHas), cacheKey,
                                  compressedOutput, cacheTTL(o), tGet),
               compressed |-> TRUE, threw |-> throws ]

\* getOrCompress (main.ts:77-89): has(key) runs at time tHas, get(key) and
\* set(key) at tGet; throws tells whether the compressor, if called, throws.
\* Gives the returned value, the cache afterwards, whether the compressor ran
\* and whether its exception left the function.
getOrCompress(o, c, algorithm, buffer, tHas, tGet, throws) ==
    LET cacheKey == CacheKey(algorithm, buffer)
    IN  IF cacheHas(c, cacheKey, tHas)
        THEN [ ret |-> cacheGet(c, cacheKey, tGet),
               cache |-> Evict(c, cacheKey, tGet),
               compressed |-> FALSE, threw |-> FALSE ]
        ELSE IF throws
        THEN [ ret |-> Unset, cache |-> Evict(c, cacheKey, tHas),
               compressed |-> TRUE, threw |-> TRUE ]
        ELSE LET compressedOutput == Compress(algorithm, buffer)
             IN  [ ret |-> Some(compressedOutput),
                   cache |-> cacheSet(Evict(c, cacheKey, tHas), cacheKey,
                                      compressedOutput, cacheTTL(o), tGet),
                   compressed |-> TRUE, threw |-> FALSE ]

\* ---------------------------------------------------------------- the middleware
Slots == {1, 2}

IdleSlot == [pc |-> "idle", req |-> Unset, resp |-> Unset, out |-> Unset, path |-> "none"]

\* Truthiness of req.headers.get(name): a missing or empty value is falsy.
Truthy(h) == IsSet(h) /\ Val(h) # <<>>

\* main.ts:98-107: the handler is entered; with the opt-out header it returns
\* next() itself, otherwise it awaits next().
Start(s, req) ==
    /\ inflight[s].pc \in {"idle", "done", "failed"}
    /\ started < MaxRequests
    /\ started' = started + 1
    /\ inflight' = [inflight EXCEPT ![s] =
          [IdleSlot EXCEPT
             !.pc = IF disableByHeader(opts) /\ Truthy(req.xNoCompression)
                    THEN "passNext" ELSE "awaitNext",
             !.req = Some(req)]]
    /\ UNCHANGED <<opts, cache, now, calls, negVars, rwVars>>

\* main.ts:104: the promise of next() is the handler's result.
PassThrough(s, response) ==
    /\ inflight[s].pc = "passNext"
    /\ inflight' = [inflight EXCEPT ![s] =
          [@ EXCEPT !.pc = "done", !.resp = Some(response), !.out = Some(response),
                    !.path = "optout"]]
    /\ UNCHANGED <<opts, cache, now, calls, started, negVars, rwVars>>

\* main.ts:107-139 and, on the streaming path, 166-204: next() resolves with
\* response and the handler runs to its next await or to its return.
NextResolves(s, response) ==
    /\ inflight[s].pc = "awaitNext"
    /\ LET req == Val(inflight[s].req)
           encoding == Negotiate(defaultEncodings(opts), req.acceptEncoding)
           Finish(path, out) ==
               [inflight[s] EXCEPT !.pc = "done", !.resp = Some(response),
                                   !.out = Some(out), !.path = path]
       IN  inflight' = [inflight EXCEPT ![s] =
             IF ~Ok(response) THEN Finish("status", response)
             ELSE IF encoding = None THEN Finish("negotiation", response)
             ELSE IF compressStream(opts) /\ IsReadableStream(response.body)
                  THEN Finish("stream",
                              Rewrite(response, encoding,
                                      CompressionStream(encoding, response.body)))
             ELSE [@ EXCEPT !.pc = "awaitBuffer", !.resp = Some(response)]]
    /\ UNCHANGED <<opts, cache, now, calls, started, negVars, rwVars>>

\* Mutant: a response without a Content-Type is not taken as compressible.
isCompressibleByTypeOnly(contentType) == defaultCompressibleTypes(contentType)

\* main.ts:148-149: !contentType || defaultCompressibleTypes.test(contentType)
isCompressible(contentType) ==
    contentType = <<>> \/ defaultCompressibleTypes(contentType)

\* main.ts:139-204: arrayBuffer() resolves; threshold, content type,
\* getOrCompress and the rewritten response.  The clock may move on between
\* getOrCompress's has(key) and its get(key)/set(key).  An exception of the
\* compressor is caught nowhere: the handler's promise rejects ("failed").
BufferResolves(s) ==
    /\ inflight[s].pc = "awaitBuffer"
    /\ LET req == Val(inflight[s].req)
           response == Val(inflight[s].resp)
           encoding == Negotiate(defaultEncodings(opts), req.acceptEncoding)
           buffer == arrayBuffer(response)
           contentType == OrDefault(response.headers.contentType, <<>>)
           Finish(path, out) ==
               [inflight[s] EXCEPT !.pc = "done", !.out = Some(out), !.path = path]
       IN  IF Len(buffer) < threshold(opts)
           THEN /\ inflight' = [inflight EXCEPT ![s] = Finish("threshold", response)]
                /\ UNCHANGED <<cache, now, calls>>
           ELSE IF ~isCompressible(contentType)
           THEN /\ inflight' = [inflight EXCEPT ![s] = Finish("type", response)]
                /\ UNCHANGED <<cache, now, calls>>
           ELSE \E d \in {0, 1}, throws \in BOOLEAN :
                /\ now + d <= MaxTime
                /\ LET r == getOrCompress(opts, cache, encoding, buffer, now, now + d,
                                          throws)
                   IN  /\ cache' = r.cache
                       /\ calls' = IF r.compressed THEN Count(calls, encoding, buffer)
                                   ELSE calls
                       /\ inflight' = [inflight EXCEPT ![s] =
                             IF r.threw
                             THEN [@ EXCEPT !.pc = "failed", !.path = "error"]
                             ELSE Finish(IF r.compressed THEN "compressed" ELSE "cached",
                                         Rewrite(response, encoding, Uint8Array(r.ret)))]
                /\ now' = now + d
    /\ UNCHANGED <<opts, started, negVars, rwVars>>

\* Time passes.  Only the cache reads the clock and only differences of its
\* readings matter, so the clock is started by the first stored entry.
Tick ==
    /\ now < MaxTime
    /\ cache # EmptyCache
    /\ now' = now + 1
    /\ UNCHANGED <<opts, cache, calls, started, inflight, negVars, rwVars>>

\* ---------------------------------------------------------------- inputs
OptionalBool == {Unset, Some(TRUE), Some(FALSE)}

\* Every compressStream setting with and without a small threshold and a short
\* TTL; the opt-out header switched on explicitly on the buffered and the
\* streaming path, and switched off.
Options ==
    [ encodings       : {Unset},
      threshold       : {Unset, Some(SmallThreshold)},
      TTL             : {Unset, Some(ShortTTL)},
      disableByHeader : {Unset},
      compressStream  : OptionalBool ]
      \cup
    [ encodings       : {Unset},
      threshold       : {Some(SmallThreshold)},
      TTL             : {Some(ShortTTL)},
      disableByHeader : {Some(TRUE)},
      compressStream  : {Unset, Some(FALSE)} ]
      \cup
    [ encodings       : {Unset},
      threshold       : {Some(SmallThreshold)},
      TTL             : {Some(ShortTTL)},
      disableByHeader : {Some(FALSE)},
      compressStream  : {Unset} ]

AcceptEncodingValues ==
    {Unset, Some(<<"*">>), Some(<<"gzip">>), Some(<<"identity">>),
     Some(<<"gzip", Comma, Space, "br">>)}

\* Every Accept-Encoding value without the opt-out header; the opt-out header,
\* empty and not, with and without an acceptable encoding.
Requests ==
    [ xNoCompression : {Unset}, acceptEncoding : AcceptEncodingValues ]
      \cup [ xNoCompression : {Some(<<>>), Some(<<"true">>)},
             acceptEncoding : {Unset, Some(<<"gzip">>)} ]

TextPlain == <<"text", "/", "plain">>
ImagePng == <<"image", "/", "png">>

\* Bodies one byte under the threshold and exactly at it; 0xFE and 0xFF are
\* bytes that no UTF-8 text holds.
Filler(n) == [i \in 1..n |-> 97]
ShortBytes == Filler(SmallThreshold - 1)
LongBytes == { <<x>> \o Filler(SmallThreshold - 1) : x \in {98, 254, 255} }

Bodies ==
    {NullBody, BufferBody(ShortBytes), StreamBody(Filler(SmallThreshold))}
      \cup { BufferBody(b) : b \in LongBytes }

OkHeaders ==
    [ contentType     : {Unset, Some(TextPlain), Some(ImagePng)},
      vary            : {Unset},
      location        : {Unset},
      contentEncoding : {Unset} ]
      \cup
    [ contentType     : {Some(TextPlain)},
      vary            : {Some(<<"Origin">>)},
      location        : {Unset},
      contentEncoding : {Unset} ]

RedirectHeaders ==
    [ contentType     : {Some(TextPlain)},
      vary            : {Unset},
      location        : {Some(<<"/not-found">>)},
      contentEncoding : {Unset} ]

\* Content-Type present but empty, as headers.get gives it for `Content-Type:`
EmptyTypeHeaders ==
    [ contentType     : {Some(<<>>)},
      vary            : {Unset},
      location        : {Unset},
      contentEncoding : {Unset} ]

Responses ==
    [status : {200}, headers : OkHeaders, body : Bodies]
      \cup [status : {200}, headers : EmptyTypeHeaders,
            body : {BufferBody(<<98>> \o Filler(SmallThreshold - 1))}]
      \cup [status : {302}, headers : RedirectHeaders,
            body : {NullBody, BufferBody(<<98>> \o Filler(SmallThreshold - 1)),
                    StreamBody(Filler(SmallThreshold))}]

MwInit ==
    /\ opts \in Options
    /\ cache = EmptyCache
    /\ now = 0
    /\ calls = EmptyCache
    /\ started = 0
    /\ inflight = [s \in Slots |-> IdleSlot]

\* ---------------------------------------------------------------- header values
\* A header value written as a token list: tokens[1] seps[1] tokens[2] ...
RECURSIVE BuildFrom(_, _, _)
BuildFrom(tokens, seps, i) ==
    IF i = Len(tokens) THEN <<tokens[i]>>
    ELSE <<tokens[i]>> \o seps[i] \o BuildFrom(tokens, seps, i + 1)
Build(tokens, seps) == IF tokens = <<>> THEN <<>> ELSE BuildFrom(tokens, seps, 1)

\* Every list of 1..MaxTokens tokens of T with a separator of S in each gap.
TokenForms(T, S) ==
    UNION { { [tokens |-> t, seps |-> sp] : t \in [1..n -> T], sp \in [1..(n - 1) -> S] } :
            n \in 1..MaxTokens }

\* ---------------------------------------------------------------- negotiation alone
EncodingLists ==
    { l \in UNION { [1..n -> {"br", "gzip", "deflate"}] : n \in 1..3 } :
        \A i, j \in 1..Len(l) : i # j => l[i] # l[j] }

ClientTokens == {"br", "gzip", "deflate", "*", "identity"}
ClientSeps == {<<Comma>>, <<Comma, Space>>}

NegInputs ==
    { [encodings |-> e, tokens |-> <<>>, seps |-> <<>>, header |-> Unset] :
        e \in {Unset} \cup { Some(l) : l \in EncodingLists } }
    \cup
    { [encodings |-> e, tokens |-> f.tokens, seps |-> f.seps,
       header |-> Some(Build(f.tokens, f.seps))] :
        e \in {Unset} \cup { Some(l) : l \in EncodingLists },
        f \in TokenForms(ClientTokens, ClientSeps) }

NegInit ==
    /\ negIn \in { Some(i) : i \in NegInputs }
    /\ negOut = Unset

\* main.ts:114-124 on its own
NegotiateStep ==
    /\ negOut = Unset
    /\ negOut' = Some(Negotiate(defaultEncodings(Val(negIn)), Val(negIn).header))
    /\ UNCHANGED <<negIn, mwVars, rwVars>>

MwIdle ==
    /\ opts = Unset
    /\ cache = EmptyCache
    /\ now = 0
    /\ calls = EmptyCache
    /\ started = 0
    /\ inflight = [s \in Slots |-> IdleSlot]

\* ---------------------------------------------------------------- rewriter alone
VaryTokens == {"Origin", "origin", "cookie", "Accept-Encoding", "accept-encoding", "*"}
VarySeps == {<<Comma>>, <<Comma, Space>>, <<Space, Comma, Space>>}

RwResponse(vary) ==
    [ status  |-> 200,
      headers |-> [contentType |-> Some(TextPlain), vary |-> vary,
                   location |-> Unset, contentEncoding |-> Unset],
      body    |-> BufferBody(Filler(SmallThreshold)) ]

RwInputs ==
    { [tokens |-> <<>>, resp |-> RwResponse(v), encoding |-> e] :
        v \in {Unset, Some(<<>>)}, e \in {"br", "gzip", "deflate"} }
    \cup
    { [tokens |-> f.tokens, resp |-> RwResponse(Some(Build(f.tokens, f.seps))),
       encoding |-> e] :
        e \in {"br", "gzip", "deflate"},
        f \in TokenForms(VaryTokens, VarySeps) }

\* main.ts:166-204 on its own
RewriteStep ==
    /\ rwOut = Unset
    /\ LET i == Val(rwIn)
       IN  rwOut' = Some(Rewrite(i.resp, i.encoding,
                                 Compress(i.encoding, arrayBuffer(i.resp))))
    /\ UNCHANGED <<rwIn, mwVars, negVars>>

NegIdle == negIn = Unset /\ negOut = Unset
RwIdle == rwIn = Unset /\ rwOut = Unset

Init == MwInit /\ NegIdle /\ RwIdle

Next ==
    \/ \E req \in Requests : Start(1, req)
    \/ \E response \in Responses : PassThrough(1, response)
    \/ \E response \in Responses : NextResolves(1, response)
    \/ BufferResolves(1)
    \/ Tick

Spec == Init /\ [][Next]_vars

\* ---------------------------------------------------------------- requests in flight together
\* Two invocations of the handler share cacheStore; they interleave at their
\* awaits (next() and arrayBuffer()), each continuation running to its next
\* await or to its return.  Buffered compression with a short TTL.
ConcOptions ==
    [ encodings       : {Unset},
      threshold       : {Some(SmallThreshold)},
      TTL             : {Unset, Some(ShortTTL)},
      disableByHeader : {Unset},
      compressStream  : {Some(FALSE)} ]

ConcRequests ==
    [ xNoCompression : {Unset},
      acceptEncoding : {Some(<<"gzip">>), Some(<<"gzip", Comma, Space, "br">>)} ]

ConcResponses ==
    [ status  : {200},
      headers : [ contentType : {Some(TextPlain)}, vary : {Unset},
                  location : {Unset}, contentEncoding : {Unset} ],
      body    : {BufferBody(ShortBytes)} \cup { BufferBody(b) : b \in LongBytes } ]

ConcInit ==
    /\ opts \in ConcOptions
    /\ cache = EmptyCache
    /\ now = 0
    /\ calls = EmptyCache
    /\ started = 0
    /\ inflight = [s \in Slots |-> IdleSlot]

InitConc == ConcInit /\ NegIdle /\ RwIdle

NextConc ==
    \/ \E s \in Slots, req \in ConcRequests : Start(s, req)
    \/ \E s \in Slots, response \in ConcResponses : NextResolves(s, response)
    \/ \E s \in Slots : BufferResolves(s)
    \/ Tick

SpecConc == InitConc /\ [][NextConc]_vars

InitNeg == MwIdle /\ NegInit /\ RwIdle
SpecNeg == InitNeg /\ [][NegotiateStep]_vars

RwInit ==
    /\ rwIn \in { Some(i) : i \in RwInputs }
    /\ rwOut = Unset

InitRw == MwIdle /\ NegIdle /\ RwInit
SpecRw == InitRw /\ [][RewriteStep]_vars

\* ================================================================ claims
Done(s) == inflight[s].pc = "done"
Req(s) == Val(inflight[s].req)
Resp(s) == Val(inflight[s].resp)
Out(s) == Val(inflight[s].out)

\* The slot's request returns in this step.
Returns(s) == inflight[s].pc # "done" /\ inflight'[s].pc = "done"

Gzip == Some(<<"gzip">>)
IsLongText(response) ==
    /\ response.body.kind = "buffer"
    /\ Len(response.body.bytes) >= SmallThreshold
    /\ response.headers.contentType = Some(TextPlain)

\* C1: a response whose body is smaller than the configured threshold is
\* returned as the continuation produced it, under every configuration.
C1_BelowThresholdUnchanged ==
    \A s \in Slots :
        (Done(s) /\ Len(arrayBuffer(Resp(s))) < threshold(opts)) => Out(s) = Resp(s)

\* C2: with a non-empty x-no-compression header and disableByHeader true or
\* unset, every step of the request leaves the cache and the compressors
\* alone and the request returns the continuation's response unchanged.
OptedOut(slot) ==
    /\ IsSet(slot.req)
    /\ IsSet(Val(slot.req).xNoCompression)
    /\ Val(Val(slot.req).xNoCompression) # <<>>
    /\ opts.disableByHeader \in {Unset, Some(TRUE)}

C2_OptOutHeaderPassesThrough ==
    [][\A s \in Slots :
          (inflight'[s] # inflight[s] /\ OptedOut(inflight'[s])) =>
              /\ cache' = cache
              /\ calls' = calls
              /\ Returns(s) => inflight'[s].out = inflight'[s].resp]_vars

C2_Witness ==
    \E s \in Slots :
        /\ Done(s) /\ OptedOut(inflight[s])
        /\ opts.disableByHeader = Unset
        /\ opts.compressStream = Some(FALSE)
        /\ opts.threshold = Some(SmallThreshold)
        /\ Req(s).acceptEncoding = Gzip
        /\ Resp(s).status = 200 /\ IsLongText(Resp(s))
        /\ Out(s) = Resp(s)

\* C3: the negotiated encoding is the first configured entry whose token is in
\* the client's comma-separated list, whether or not a space follows the
\* commas, and none when no configured token is listed.
FirstConfigured(configured, tokens) ==
    LET listed == { i \in 1..Len(configured) :
                      \E j \in 1..Len(tokens) : tokens[j] = configured[i] }
    IN  IF listed = {} THEN None
        ELSE configured[CHOOSE i \in listed : \A k \in listed : i <= k]

C3_NegotiationByConfiguredOrder ==
    IsSet(negOut) =>
        Val(negOut) = FirstConfigured(defaultEncodings(Val(negIn)), Val(negIn).tokens)

\* C4: without an Accept-Encoding header, with `*` alone, or with only tokens
\* that are not configured, the continuation's response is returned unchanged
\* on the buffered and on the streaming path.
SymbolsOf(header) ==
    IF IsSet(header) THEN { Val(header)[i] : i \in 1..Len(Val(header)) } ELSE {}

NothingAcceptable(req) ==
    LET configured == defaultEncodings(opts)
    IN  SymbolsOf(req.acceptEncoding) \cap { configured[i] : i \in 1..Len(configured) } = {}

C4_NoAcceptedEncodingUnchanged ==
    \A s \in Slots : (Done(s) /\ NothingAcceptable(Req(s))) => Out(s) = Resp(s)

C4_Witness ==
    \E s \in Slots :
        /\ Done(s)
        /\ Req(s).acceptEncoding = Some(<<"*">>)
        /\ Req(s).xNoCompression = Unset
        /\ opts.compressStream = Some(TRUE)
        /\ Resp(s).status = 200
        /\ Resp(s).body.kind = "stream"
        /\ Out(s) = Resp(s)
        /\ Out(s).headers.contentEncoding = Unset
        /\ Out(s).headers.vary = Unset

\* C5: a response whose status is outside 200-299 is returned unchanged, all
\* its headers intact, and no step of the request touches the cache or the
\* compressors.
NotOk(slot) ==
    /\ IsSet(slot.resp)
    /\ (Val(slot.resp).status < 200 \/ Val(slot.resp).status > 299)

C5_NonOkPassesThrough ==
    [][\A s \in Slots :
          (inflight'[s] # inflight[s] /\ NotOk(inflight'[s])) =>
              /\ cache' = cache
              /\ calls' = calls
              /\ Returns(s) => inflight'[s].out = inflight'[s].resp]_vars

C5_Witness ==
    \E s \in Slots :
        /\ Done(s)
        /\ Resp(s).status = 302
        /\ IsLongText(Resp(s))
        /\ Req(s).acceptEncoding = Gzip
        /\ Req(s).xNoCompression = Unset
        /\ opts.compressStream = Some(FALSE)
        /\ opts.threshold = Some(SmallThreshold)
        /\ Out(s).headers.location = Some(<<"/not-found">>)
        /\ Out(s).headers.contentEncoding = Unset

\* The slot's request returns in this step with a buffered compressed response.
ReturnsBuffered(s) ==
    /\ inflight[s].pc = "awaitBuffer"
    /\ inflight'[s].pc = "done"
    /\ IsSet(Val(inflight'[s].out).headers.contentEncoding)

\* C6: a buffered request whose (algorithm, body) pair was compressed and
\* stored by an earlier request, and whose lookups fall inside that entry's TTL
\* window, returns the stored bytes and does not invoke the compressor.
C6_CacheHitWithinTTL ==
    [][\A s \in Slots :
          ReturnsBuffered(s) =>
              LET alg == Val(Val(inflight'[s].out).headers.contentEncoding)[1]
                  body == arrayBuffer(Resp(s))
                  stored == { k \in DOMAIN cache :
                                /\ cache[k].value.alg = alg
                                /\ cache[k].value.data = body
                                /\ now' < cache[k].expiresAt }
              IN  stored # {} =>
                      /\ \A k \in stored : Val(inflight'[s].out).body = cache[k].value
                      /\ calls' = calls
                      /\ Calls(calls, alg, body) >= 1]_vars

C6_Witness ==
    \E s \in Slots :
        /\ Done(s)
        /\ inflight[s].path = "cached"
        /\ started = 2
        /\ Out(s).body.kind = "compressed"
        /\ Out(s).body.data = arrayBuffer(Resp(s))
        /\ Calls(calls, Out(s).body.alg, Out(s).body.data) = 1

\* C7: the body of every buffered compressed response decompresses, with the
\* response's algorithm, to the bytes the continuation produced for that
\* request, whether it was compressed afresh or taken from the cache.
C7_RoundTrip ==
    \A s \in Slots :
        (Done(s) /\ IsSet(Out(s).headers.contentEncoding) /\ Out(s).body.kind = "compressed")
            => Decompress(Val(Out(s).headers.contentEncoding)[1], Out(s).body)
                   = [threw |-> FALSE, bytes |-> arrayBuffer(Resp(s))]

\* C10: when compressStream is not supplied, a response whose body is a live
\* stream is not routed through the streaming compressor.
C10_StreamingOffByDefault ==
    \A s \in Slots :
        (Done(s) /\ opts.compressStream = Unset /\ Resp(s).body.kind = "stream")
            => Out(s).body.kind # "compressedStream"

\* The Vary tokens of the rewriter's input, each trimmed and lowercased, as the
\* input was written (not as the rewriter parses it).
LoweredTokens ==
    [i \in 1..Len(Val(rwIn).tokens) |-> <<LowerSym(Val(rwIn).tokens[i])>>]

HasWildcard == \E i \in 1..Len(LoweredTokens) : LoweredTokens[i] = Wildcard
HasAcceptEncoding == \E i \in 1..Len(LoweredTokens) : LoweredTokens[i] = AcceptEncodingToken

\* The first occurrence of every element, in order.
RECURSIVE FirstOccurrences(_)
FirstOccurrences(seq) ==
    IF seq = <<>> THEN <<>>
    ELSE LET front == FirstOccurrences(SubSeq(seq, 1, Len(seq) - 1))
             last == seq[Len(seq)]
         IN  IF \E i \in 1..Len(front) : front[i] = last THEN front ELSE Append(front, last)

Occurrences(str, sym) == Cardinality({ i \in 1..Len(str) : str[i] = sym })

\* C8 as stated: without a wildcard, the rewritten Vary is the existing tokens,
\* trimmed and lowercased, every one of them in its place, then accept-encoding
\* unless it is among them, joined with ", ".
C8_VaryKeepsEveryToken ==
    (IsSet(rwOut) /\ ~HasWildcard) =>
        Val(rwOut).headers.vary =
            Some(Join(LoweredTokens \o (IF HasAcceptEncoding THEN <<>> ELSE <<AcceptEncodingToken>>),
                      <<Comma, Space>>))

\* C8 amended: without a wildcard, the rewritten Vary is the first occurrence of
\* each existing token, trimmed and lowercased, in the original order, then
\* accept-encoding unless it is among them, joined with ", "; accept-encoding
\* occurs in it exactly once.
C8_VaryMergedWithoutDuplicates ==
    (IsSet(rwOut) /\ ~HasWildcard) =>
        /\ Val(rwOut).headers.vary =
              Some(Join(FirstOccurrences(LoweredTokens)
                          \o (IF HasAcceptEncoding THEN <<>> ELSE <<AcceptEncodingToken>>),
                        <<Comma, Space>>))
        /\ Occurrences(Val(Val(rwOut).headers.vary), "accept-encoding") = 1

C8_Witness ==
    /\ IsSet(rwOut)
    /\ Val(rwIn).resp.headers.vary = Some(<<"Origin", Comma, "Accept-Encoding", Space, Comma, Space, "origin">>)
    /\ Val(rwOut).headers.vary = Some(<<"origin", Comma, Space, "accept-encoding">>)

\* C9: when the existing Vary holds the token `*`, alone or among others, the
\* rewritten response carries the original Vary value and Content-Encoding is
\* the negotiated encoding.
C9_WildcardVaryUntouched ==
    (IsSet(rwOut) /\ HasWildcard) =>
        /\ Val(rwOut).headers.vary = Val(rwIn).resp.headers.vary
        /\ Val(rwOut).headers.contentEncoding = Some(<<Val(rwIn).encoding>>)

C9_Witness ==
    /\ IsSet(rwOut)
    /\ Val(rwIn).resp.headers.vary = Some(<<"Origin", Comma, Space, "*">>)
    /\ Val(rwOut).headers.vary = Some(<<"Origin", Comma, Space, "*">>)
    /\ Val(rwOut).headers.contentEncoding = Some(<<"br">>)

\* C11: a request handled on the streaming path (compressStream enabled, a 2xx
\* response whose body is a stream, an encoding negotiated, no opt-out) neither
\* reads nor writes the cache and calls no compressor of the buffered path; its
\* result is returned in the step in which the continuation resolves, with
\* Content-Encoding set to the negotiated encoding and a body that is a stream.
FirstAccepted(req) ==
    LET configured == <<"br", "gzip", "deflate">>
        listed == { i \in 1..3 : configured[i] \in SymbolsOf(req.acceptEncoding) }
    IN  configured[CHOOSE i \in listed : \A k \in listed : i <= k]

OnStreamingPath(slot) ==
    /\ IsSet(slot.req) /\ IsSet(slot.resp)
    /\ opts.compressStream = Some(TRUE)
    /\ ~OptedOut(slot)
    /\ Val(slot.resp).status \in 200..299
    /\ Val(slot.resp).body.kind = "stream"
    /\ ~NothingAcceptable(Val(slot.req))

C11_StreamingBypassesCache ==
    [][\A s \in Slots :
          (inflight'[s] # inflight[s] /\ OnStreamingPath(inflight'[s])) =>
              LET req == Val(inflight'[s].req)
                  out == Val(inflight'[s].out)
                  negotiated == FirstAccepted(req)
              IN  /\ cache' = cache
                  /\ calls' = calls
                  /\ Returns(s)
                  /\ out.headers.contentEncoding = Some(<<negotiated>>)
                  /\ out.body.kind # "buffer"]_vars

C11_Witness ==
    \E s \in Slots :
        /\ Done(s) /\ OnStreamingPath(inflight[s])
        /\ Req(s).acceptEncoding = Some(<<"gzip", Comma, Space, "br">>)
        /\ Out(s).headers.contentEncoding = Some(<<"br">>)
        /\ cache = EmptyCache

\* C12: on the buffered path, for a 2xx response with a negotiated encoding and
\* a body of at least the threshold: with a non-empty Content-Type that the
\* compressible-type classifier does not match the continuation's response is
\* returned unchanged and neither the cache nor a compressor is touched; with
\* Content-Type absent or empty the response is compressed (Content-Encoding
\* set to the negotiated encoding, body replaced).
BufferedAtLeastThreshold(s) ==
    /\ inflight[s].pc = "awaitBuffer"
    /\ inflight'[s].pc = "done"
    /\ Resp(s).status \in 200..299
    /\ ~NothingAcceptable(Req(s))
    /\ Len(Resp(s).body.bytes) >=
          (IF IsSet(opts.threshold) THEN Val(opts.threshold) ELSE DefaultThreshold)

C12_ContentTypeGate ==
    [][\A s \in Slots :
          BufferedAtLeastThreshold(s) =>
              LET contentType == Resp(s).headers.contentType
                  out == Val(inflight'[s].out)
              IN  IF IsSet(contentType) /\ Val(contentType) # <<>>
                  THEN ~defaultCompressibleTypes(Val(contentType)) =>
                          /\ out = Resp(s)
                          /\ cache' = cache
                          /\ calls' = calls
                  ELSE /\ out.headers.contentEncoding = Some(<<FirstAccepted(Req(s))>>)
                       /\ out.body # Resp(s).body
                       /\ out.status = Resp(s).status]_vars

\* an image/png body at the threshold is returned as it came although an
\* earlier request has filled the cache
C12_Witness ==
    \E s \in Slots :
        /\ Done(s)
        /\ opts.compressStream = Some(FALSE)
        /\ Resp(s).headers.contentType = Some(ImagePng)
        /\ Resp(s).body.kind = "buffer"
        /\ Len(Resp(s).body.bytes) >= SmallThreshold
        /\ opts.threshold = Some(SmallThreshold)
        /\ Req(s).acceptEncoding = Gzip
        /\ Out(s) = Resp(s)
        /\ cache # EmptyCache

\* C13: when the compressor throws for a buffered request, that request ends
\* in an error and returns no response; the compressor was called once for it
\* (no retry); nothing is stored in the cache: every entry present afterwards
\* was present before with the same content, an entry missing afterwards was
\* already expired, and there is no entry for the request's key, so that an
\* identical later request calls the compressor again; no other request in
\* flight is affected.
CompressorFails(s) ==
    inflight[s].pc = "awaitBuffer" /\ inflight'[s].pc = "failed"

C13_CompressorFailureIsolated ==
    [][\A s \in Slots :
          CompressorFails(s) =>
              LET alg == FirstAccepted(Req(s))
                  body == Resp(s).body.bytes
              IN  /\ inflight'[s].out = Unset
                  /\ calls' = Count(calls, alg, body)
                  /\ \A k \in DOMAIN cache' : k \in DOMAIN cache /\ cache'[k] = cache[k]
                  /\ \A k \in DOMAIN cache \ DOMAIN cache' : now >= cache[k].expiresAt
                  /\ CacheKey(alg, body) \notin DOMAIN cache'
                  /\ \A t \in Slots \ {s} : inflight'[t] = inflight[t]]_vars

\* the second of two identical requests has failed like the first: the
\* compressor was called for each and the cache is still empty
C13_Witness ==
    \E s \in Slots :
        /\ inflight[s].pc = "failed"
        /\ inflight[s].out = Unset
        /\ started = 2
        /\ Calls(calls, "gzip", Resp(s).body.bytes) = 2
        /\ cache = EmptyCache

\* C14: no stale cache reads.  An entry stored at time t with the configured
\* TTL (86400 s when none is configured) is never served to a request whose
\* lookup falls at t + TTL or later; a request that looks its key up at or after
\* that time calls the compressor again, gets the fresh compression, and stores
\* it in an entry that expires TTL after the time of this store.
ConfiguredTTL == IF IsSet(opts.TTL) THEN Val(opts.TTL) ELSE DefaultTTL

C14_NoStaleCacheReads ==
    [][\A s \in Slots :
          ReturnsBuffered(s) =>
              LET alg == FirstAccepted(Req(s))
                  body == Resp(s).body.bytes
                  key == CacheKey(alg, body)
                  out == Val(inflight'[s].out)
              IN  /\ (key \in DOMAIN cache /\ now' >= cache[key].expiresAt) =>
                         ~(calls' = calls /\ out.body = cache[key].value)
                  /\ (key \in DOMAIN cache /\ now >= cache[key].expiresAt) =>
                         /\ calls' = Count(calls, alg, body)
                         /\ out.body = Compress(alg, body)
                         /\ cache'[key] = [value |-> Compress(alg, body),
                                           expiresAt |-> now' + ConfiguredTTL]
                  /\ \A k \in DOMAIN cache' :
                         k \notin DOMAIN cache \/ cache'[k] # cache[k] =>
                             cache'[k].expiresAt = now' + ConfiguredTTL]_vars

\* the entry stored at time 0 with a TTL of ShortTTL was looked up when it
\* had expired: the body was compressed a second time and stored afresh
C14_Witness ==
    \E s \in Slots :
        /\ Done(s)
        /\ opts.TTL = Some(ShortTTL)
        /\ started = 2
        /\ Out(s).body = Compress("gzip", Resp(s).body.bytes)
        /\ Calls(calls, "gzip", Resp(s).body.bytes) = 2
        /\ cache[CacheKey("gzip", Resp(s).body.bytes)].expiresAt = now + ShortTTL
        /\ now >= ShortTTL

\* C16: getOrCompress always returns compressed bytes, never an absent value,
\* also when the entry is unexpired at has(key) and expired at get(key): the
\* body of every buffered response that carries Content-Encoding is a
\* compressed payload in the negotiated encoding, never an empty one.
C16_CompressedBytesNeverAbsent ==
    [][\A s \in Slots :
          ReturnsBuffered(s) =>
              LET out == Val(inflight'[s].out)
              IN  /\ out.body.kind = "compressed"
                  /\ out.body.alg = FirstAccepted(Req(s))]_vars

\* The part of C15 that is about the cache alone: whatever the interleaving, a
\* buffered request calls the compressor at most once, and only when no
\* unexpired entry for its key is stored; a successful call leaves its result
\* stored under the key; no other key's entry is changed.
CompressorCalledOncePerWindow ==
    [][\A s \in Slots :
          (inflight[s].pc = "awaitBuffer" /\ inflight'[s].pc \in {"done", "failed"}) =>
              LET alg == FirstAccepted(Req(s))
                  body == Resp(s).body.bytes
                  key == CacheKey(alg, body)
              IN  /\ calls' \in {calls, Count(calls, alg, body)}
                  /\ calls' # calls => ~(key \in DOMAIN cache /\ now < cache[key].expiresAt)
                  /\ (calls' # calls /\ inflight'[s].pc = "done") =>
                         /\ key \in DOMAIN cache'
                         /\ cache'[key].value = Compress(alg, body)
                  /\ \A k \in DOMAIN cache' \ {key} :
                         k \in DOMAIN cache /\ cache'[k] = cache[k]]_vars

\* C15: for every interleaving of the requests in flight, no cache update is
\* lost: the compressor is called for a key only when no unexpired entry for
\* that key is stored (at most one call per key and TTL window), and every
\* request that reaches buffered compression receives the compressed bytes of
\* its own body.
C15_InterleavedRequestsGetOwnBytes ==
    [][\A s \in Slots :
          /\ (inflight[s].pc = "awaitBuffer" /\ inflight'[s].pc \in {"done", "failed"}) =>
                LET key == CacheKey(FirstAccepted(Req(s)), Resp(s).body.bytes)
                IN  /\ calls' \in {calls, Count(calls, FirstAccepted(Req(s)),
                                                 Resp(s).body.bytes)}
                    /\ calls' # calls =>
                           ~(key \in DOMAIN cache /\ now < cache[key].expiresAt)
          /\ ReturnsBuffered(s) =>
                Val(inflight'[s].out).body =
                    Compress(FirstAccepted(Req(s)), Resp(s).body.bytes)]_vars

====
